---------------------------- MODULE Spec2Model ----------------------------
(***************************************************************************)
(* Model of streamlit_app.py: a calibration quiz.  The script is rerun     *)
(* from top to bottom after every widget interaction.  A run loads the     *)
(* question bank, renders two radios per question, scores the session when *)
(* the score button was pressed and always rebuilds the raw-response       *)
(* table.                                                                  *)
(*                                                                         *)
(* Python values are modelled as follows.  None / a value v is <<>> / <<v>>.*)
(* Option texts are TLA+ strings (the code only tests them for truth and   *)
(* equality).  Confidence labels are sequences of characters, because the  *)
(* code formats, strips and parses them.  A DataFrame is the sequence of   *)
(* its rows.  A real number is an exact fraction [num, den] in lowest      *)
(* terms; float64 evaluation is modelled separately (F64 section).         *)
(***************************************************************************)
EXTENDS Integers, Sequences, FiniteSets, TLC

VARIABLES
    questions,      \* the question bank, list of records (line 90)
    session_state,  \* st.session_state: widget key -> None | value
    score_button,   \* value of st.button in the last script run (line 146)
    presented,      \* ids of the questions rendered by the last run, in order
    responses_df,   \* the score handler's frame after the handler ran
    warning,        \* st.warning was shown by the last run (line 228)
    engine_calls,   \* calls of compute_calibration made by the last run
    calib,          \* what compute_calibration returned, or None
    resp_debug,     \* rows of the raw-response table (line 329)
    script_error    \* the last run ended in an uncaught exception

vars == <<questions, session_state, score_button, presented, responses_df,
          warning, engine_calls, calib, resp_debug, script_error>>

\* ------------------------------------------------------------------ bounds
MaxQuestions == 2   \* longest question bank of the application specification
MaxLen == 3         \* longest response list of the engine specification

\* ---------------------------------------------------------- Python values
None == <<>>
Some(v) == <<v>>
IsNone(x) == Len(x) = 0
Value(x) == x[1]

\* `not x` for x an optional string; empty is the empty string of x's kind
NotPy(x, empty) == IsNone(x) \/ Value(x) = empty

CONFIDENCE_LEVELS == <<55, 65, 75, 85, 95>>

DigitChars == <<"0", "1", "2", "3", "4", "5", "6", "7", "8", "9">>

RECURSIVE Digits(_)
Digits(n) ==
    IF n < 10 THEN <<DigitChars[n + 1]>>
    ELSE Append(Digits(n \div 10), DigitChars[(n % 10) + 1])

\* f"{c}%"
FormatPercent(c) == Append(Digits(c), "%")

\* s.rstrip(ch)
RECURSIVE RStrip(_, _)
RStrip(s, ch) ==
    IF Len(s) > 0 /\ s[Len(s)] = ch
    THEN RStrip(SubSeq(s, 1, Len(s) - 1), ch)
    ELSE s

DigitValue(ch) == CHOOSE d \in 0..9 : DigitChars[d + 1] = ch
IsDigit(ch) == \E d \in 0..9 : DigitChars[d + 1] = ch

\* int(s) succeeds on a non-empty string of decimal digits
IntOk(s) == Len(s) > 0 /\ \A i \in 1..Len(s) : IsDigit(s[i])

RECURSIVE IntVal(_)
IntVal(s) ==
    IF Len(s) = 0 THEN 0
    ELSE 10 * IntVal(SubSeq(s, 1, Len(s) - 1)) + DigitValue(s[Len(s)])

\* -------------------------------------------------------- exact fractions
Abs(n) == IF n < 0 THEN -n ELSE n

RECURSIVE GCD(_, _)
GCD(a, b) == IF b = 0 THEN a ELSE GCD(b, a % b)

Rat(n, d) ==
    LET g == GCD(Abs(n), d)
    IN  [num |-> n \div g, den |-> d \div g]

RatAdd(a, b) == Rat(a.num * b.den + b.num * a.den, a.den * b.den)
RatSub(a, b) == Rat(a.num * b.den - b.num * a.den, a.den * b.den)
RatMul(a, b) == Rat(a.num * b.num, a.den * b.den)
RatDivInt(a, n) == Rat(a.num, a.den * n)

RECURSIVE RatSum(_)
RatSum(s) == IF s = <<>> THEN Rat(0, 1) ELSE RatAdd(Head(s), RatSum(Tail(s)))

\* ------------------------------------------------------- the question bank
\* The kinds of record the bank is drawn from: a true/false question with
\* either slot correct, a question whose two options carry the same text, a
\* question with the option text "?", and a record whose correct is not 1 or 2.
QuestionKinds ==
    { [round |-> "R1", qtype |-> "tf", option_1 |-> "True", option_2 |-> "False", correct |-> 1],
      [round |-> "R1", qtype |-> "tf", option_1 |-> "True", option_2 |-> "False", correct |-> 2],
      [round |-> "R2", qtype |-> "either", option_1 |-> "Same", option_2 |-> "Same", correct |-> 1],
      [round |-> "R2", qtype |-> "either", option_1 |-> "?", option_2 |-> "!", correct |-> 1],
      [round |-> "R1", qtype |-> "tf", option_1 |-> "True", option_2 |-> "False", correct |-> 3] }

Question(i, k) ==
    [id |-> i, round |-> k.round, prompt |-> "prompt", qtype |-> k.qtype,
     option_1 |-> k.option_1, option_2 |-> k.option_2, correct |-> k.correct]

\* pd.read_csv("questions.csv").to_dict("records"): any file of at most
\* MaxQuestions records; nothing is validated
Banks ==
    UNION { { [i \in 1..n |-> Question(i, ks[i])] : ks \in [1..n -> QuestionKinds] }
            : n \in 0..MaxQuestions }

AnsKey(q) == <<"ans", q.id>>
ConfKey(q) == <<"conf", q.id>>
Keys(qs) == { AnsKey(qs[i]) : i \in 1..Len(qs) } \cup { ConfKey(qs[i]) : i \in 1..Len(qs) }

\* st.session_state.get(key)
Get(ss, key) == IF key \in DOMAIN ss THEN ss[key] ELSE None


\* ------------------------------------------------------------- rendering
\* rounds = {}; rounds.setdefault(q["round"], []).append(q): the keys of the
\* dict, in insertion order
RECURSIVE RoundNames(_)
RoundNames(qs) ==
    IF qs = <<>> THEN <<>>
    ELSE LET rest == RoundNames(SubSeq(qs, 1, Len(qs) - 1))
             r == qs[Len(qs)].round
         IN  IF \E i \in 1..Len(rest) : rest[i] = r THEN rest ELSE Append(rest, r)

InRound(qs, r) == SelectSeq(qs, LAMBDA q : q.round = r)

RECURSIVE RenderRounds(_, _)
RenderRounds(names, qs) ==
    IF names = <<>> THEN <<>>
    ELSE LET grp == InRound(qs, Head(names))
         IN  [i \in 1..Len(grp) |-> grp[i].id] \o RenderRounds(Tail(names), qs)

\* the ids of the questions whose two radios are drawn, in drawing order
Rendered(qs) == RenderRounds(RoundNames(qs), qs)

\* ------------------------------------------------------ collect_responses
\* mutation: the first slot is always taken as the correct one
CorrectOptionText_FirstSlot(q) == q.option_1

CorrectOptionText(q) == IF q.correct = 1 THEN q.option_1 ELSE q.option_2

\* if not ans or ans == "?" or not conf_str or conf_str == "?": continue
Unanswered(ans, conf_str) ==
    \/ NotPy(ans, "")
    \/ ans = Some("?")
    \/ NotPy(conf_str, <<>>)
    \/ conf_str = Some(<<"?">>)

\* int(conf_str.rstrip("%")); ok is FALSE where Python raises
ParseConfidence(conf_str) ==
    IF IsNone(conf_str) THEN [ok |-> FALSE, value |-> 0]
    ELSE LET s == RStrip(Value(conf_str), "%")
         IN  IF IntOk(s) THEN [ok |-> TRUE, value |-> IntVal(s)]
             ELSE [ok |-> FALSE, value |-> 0]

ScoredRow(q, ans, conf_percent) ==
    LET correct_option_text == CorrectOptionText(q)
        is_correct == (ans = Some(correct_option_text))
    IN  [id |-> q.id, round |-> q.round, prompt |-> q.prompt,
         selected_answer |-> ans, correct_answer |-> correct_option_text,
         is_correct |-> is_correct, confidence_percent |-> conf_percent]

\* mutation: rows.insert(0, row)
AppendRow_Front(rows, row) == <<row>> \o rows

\* rows.append(row)
AppendRow(rows, row) == Append(rows, row)

\* the for loop over the questions not yet visited, rows being the list so far
RECURSIVE CollectLoop(_, _, _)
CollectLoop(qs, ss, rows) ==
    IF qs = <<>> THEN [rows |-> rows, raised |-> FALSE]
    ELSE LET q == Head(qs)
             ans == Get(ss, AnsKey(q))
             conf_str == Get(ss, ConfKey(q))
         IN  IF Unanswered(ans, conf_str) THEN CollectLoop(Tail(qs), ss, rows)
             ELSE LET p == ParseConfidence(conf_str)
                  IN  IF ~p.ok THEN [rows |-> <<>>, raised |-> TRUE]
                      ELSE CollectLoop(Tail(qs), ss,
                                       AppendRow(rows, ScoredRow(q, ans, p.value)))

\* The frame returned (its rows), whether the call raised, and the question
\* bank and session state as the call leaves them.
collect_responses(qs, ss) ==
    LET r == CollectLoop(qs, ss, <<>>)
    IN  [rows |-> r.rows, raised |-> r.raised, questions |-> qs, session_state |-> ss]

\* ---------------------------------------------------- compute_calibration
BoolInt(b) == IF b THEN 1 ELSE 0

RECURSIVE Ascending(_)
Ascending(S) ==
    IF S = {} THEN <<>>
    ELSE LET m == CHOOSE x \in S : \A y \in S : x <= y
         IN  <<m>> \o Ascending(S \ {m})

\* mutation: one key per row, duplicates kept
GroupKeys_PerRow(df) == [i \in 1..Len(df) |-> df[i].confidence_percent]

\* mutation: groupby(..., sort=False), the keys in order of first appearance
RECURSIVE FirstSeen(_)
FirstSeen(keys) ==
    IF keys = <<>> THEN <<>>
    ELSE LET rest == FirstSeen(SubSeq(keys, 1, Len(keys) - 1))
             k == keys[Len(keys)]
         IN  IF \E i \in 1..Len(rest) : rest[i] = k THEN rest ELSE Append(rest, k)

GroupKeys_Unsorted(df) == FirstSeen(GroupKeys_PerRow(df))

\* df.groupby("confidence_percent"): the group keys, sorted
GroupKeys(df) == Ascending({ df[i].confidence_percent : i \in 1..Len(df) })

Group(df, c) == SelectSeq(df, LAMBDA r : r.confidence_percent = c)

\* mutation: "count" in place of "sum"
SumCorrect_Size(g) == Len(g)

RECURSIVE SumCorrect(_)
SumCorrect(g) ==
    IF g = <<>> THEN 0 ELSE BoolInt(Head(g).is_correct) + SumCorrect(Tail(g))

\* .agg(["size", "sum"]) of one group, with the two derived columns
Bucket(df, c) ==
    LET g == Group(df, c)
        n_questions == Len(g)
        n_correct == SumCorrect(g)
    IN  [confidence_percent |-> c, n_questions |-> n_questions, n_correct |-> n_correct,
         percent_correct |-> RatMul(Rat(n_correct, n_questions), Rat(100, 1)),
         stated_confidence |-> c]

Grouped(df) ==
    LET keys == GroupKeys(df)
    IN  [i \in 1..Len(keys) |-> Bucket(df, keys[i])]

\* df["conf_prob"] = ...; df["outcome"] = ...
AddScoreColumns(df) ==
    [i \in 1..Len(df) |->
        [id |-> df[i].id, round |-> df[i].round, prompt |-> df[i].prompt,
         selected_answer |-> df[i].selected_answer,
         correct_answer |-> df[i].correct_answer,
         is_correct |-> df[i].is_correct,
         confidence_percent |-> df[i].confidence_percent,
         conf_prob |-> Rat(df[i].confidence_percent, 100),
         outcome |-> BoolInt(df[i].is_correct)]]

\* series.mean()
Mean(s) == RatDivInt(RatSum(s), Len(s))

\* mutation: the error is not squared
SquaredError_Signed(r) == RatSub(r.conf_prob, Rat(r.outcome, 1))

SquaredError(r) ==
    LET d == RatSub(r.conf_prob, Rat(r.outcome, 1))
    IN  RatMul(d, d)

Brier(work) == Mean([i \in 1..Len(work) |-> SquaredError(work[i])])

\* mutation: the mean of the per-level shares of correct responses
Accuracy_MeanOfLevels(work) ==
    LET keys == Ascending({ work[i].confidence_percent : i \in 1..Len(work) })
    IN  Mean([k \in 1..Len(keys) |->
                Rat(Len(SelectSeq(work, LAMBDA r : r.confidence_percent = keys[k] /\ r.is_correct)),
                    Len(SelectSeq(work, LAMBDA r : r.confidence_percent = keys[k])))])

Accuracy(work) == Mean([i \in 1..Len(work) |-> Rat(BoolInt(work[i].is_correct), 1)])

\* the caller's frame once the call is over: the columns went to a copy
FrameAfterCall(df, work) == df

\* kind "frame": the empty frame itself is returned; kind "tuple": the four
\* results.  df is the caller's frame after the call.
compute_calibration(df) ==
    IF Len(df) = 0 THEN [kind |-> "frame", df |-> df]
    ELSE LET work == AddScoreColumns(df)
         IN  [kind |-> "tuple",
              grouped |-> Grouped(df),
              brier |-> Brier(work),
              accuracy |-> Accuracy(work),
              n_used |-> Len(work),
              df |-> FrameAfterCall(df, work)]

\* --------------------------------------------------------- the script run
\* mutation: the guard never holds
TooFewResponses_Never(df) == Len(df) < 0

\* if len(responses_df) < 1
TooFewResponses(df) == Len(df) < 1

\* if score_button: ... (the summary, table and chart only display calib)
ScoreHandler(qs, ss) ==
    LET c == collect_responses(qs, ss)
    IN  IF c.raised
        THEN [responses_df |-> <<>>, warning |-> FALSE, engine_calls |-> 0,
              calib |-> None, error |-> TRUE,
              questions |-> c.questions, session_state |-> c.session_state]
        ELSE IF TooFewResponses(c.rows)
        THEN [responses_df |-> c.rows, warning |-> TRUE, engine_calls |-> 0,
              calib |-> None, error |-> FALSE,
              questions |-> c.questions, session_state |-> c.session_state]
        ELSE LET r == compute_calibration(c.rows)
             IN  [responses_df |-> r.df, warning |-> FALSE, engine_calls |-> 1,
                  calib |-> Some(r), error |-> r.kind # "tuple",
                  questions |-> c.questions, session_state |-> c.session_state]

NoScore(qs, ss) ==
    [responses_df |-> <<>>, warning |-> FALSE, engine_calls |-> 0,
     calib |-> None, error |-> FALSE, questions |-> qs, session_state |-> ss]

\* One run of the script: the state it leaves behind.
Run(qs, ss, button) ==
    LET h == IF button THEN ScoreHandler(qs, ss) ELSE NoScore(qs, ss)
        d == collect_responses(h.questions, h.session_state)
    IN  [questions |-> IF h.error THEN h.questions ELSE d.questions,
         session_state |-> IF h.error THEN h.session_state ELSE d.session_state,
         score_button |-> button,
         presented |-> Rendered(qs),
         responses_df |-> h.responses_df,
         warning |-> h.warning,
         engine_calls |-> h.engine_calls,
         calib |-> h.calib,
         resp_debug |-> IF h.error \/ d.raised THEN <<>> ELSE d.rows,
         script_error |-> h.error \/ d.raised]

Becomes(r) ==
    /\ questions' = r.questions
    /\ session_state' = r.session_state
    /\ score_button' = r.score_button
    /\ presented' = r.presented
    /\ responses_df' = r.responses_df
    /\ warning' = r.warning
    /\ engine_calls' = r.engine_calls
    /\ calib' = r.calib
    /\ resp_debug' = r.resp_debug
    /\ script_error' = r.script_error

Is(r) ==
    /\ questions = r.questions
    /\ session_state = r.session_state
    /\ score_button = r.score_button
    /\ presented = r.presented
    /\ responses_df = r.responses_df
    /\ warning = r.warning
    /\ engine_calls = r.engine_calls
    /\ calib = r.calib
    /\ resp_debug = r.resp_debug
    /\ script_error = r.script_error

\* the first run: no widget has a value, the button is not pressed
Init == \E qs \in Banks : Is(Run(qs, [k \in Keys(qs) |-> None], FALSE))

OptionText(q, slot) == IF slot = 1 THEN q.option_1 ELSE q.option_2

\* the user picks an option of the answer radio; the script reruns
SelectAnswer(i, slot) ==
    LET q == questions[i]
        picked == Some(OptionText(q, slot))
    IN  /\ session_state[AnsKey(q)] # picked
        /\ Becomes(Run(questions, [session_state EXCEPT ![AnsKey(q)] = picked], FALSE))

\* The labels of the confidence radio the user clicks in the application
\* specification, as indexes into CONFIDENCE_LEVELS: the first and the last.
\* The engine specification draws its rows from all five labels.
ClickedLabels == {1, Len(CONFIDENCE_LEVELS)}

\* the user picks a label of the confidence radio; the script reruns
SelectConfidence(i, k) ==
    LET q == questions[i]
        picked == Some(FormatPercent(CONFIDENCE_LEVELS[k]))
    IN  /\ session_state[ConfKey(q)] # picked
        /\ Becomes(Run(questions, [session_state EXCEPT ![ConfKey(q)] = picked], FALSE))

\* the user presses the score button; the script reruns
ClickScore == Becomes(Run(questions, session_state, TRUE))

Next ==
    \/ \E i \in 1..Len(questions), slot \in {1, 2} : SelectAnswer(i, slot)
    \/ \E i \in 1..Len(questions), k \in ClickedLabels : SelectConfidence(i, k)
    \/ ClickScore

Spec == Init /\ [][Next]_vars


\* ------------------------------------------------ float64 evaluation (F64)
\* A non-negative double is [m, e], its value being m * 2^e.  m is a natural
\* of exactly 53 bits (or zero, with e = 0), written as limbs of LimbBits
\* bits, least significant first, so equal doubles are equal records.  Every
\* operation rounds its exact result to 53 significant bits, ties to even (no
\* value here is subnormal or overflows).
LimbBits == 15
LimbBase == 2 ^ LimbBits

RECURSIVE LNorm(_)
LNorm(a) ==
    IF Len(a) > 0 /\ a[Len(a)] = 0 THEN LNorm(SubSeq(a, 1, Len(a) - 1)) ELSE a

RECURSIVE LFromNat(_)
LFromNat(n) == IF n = 0 THEN <<>> ELSE <<n % LimbBase>> \o LFromNat(n \div LimbBase)

RECURSIVE LAddC(_, _, _)
LAddC(a, b, c) ==
    IF a = <<>> /\ b = <<>> THEN (IF c = 0 THEN <<>> ELSE <<c>>)
    ELSE LET x == IF a = <<>> THEN 0 ELSE Head(a)
             y == IF b = <<>> THEN 0 ELSE Head(b)
             t == x + y + c
         IN  <<t % LimbBase>> \o LAddC(IF a = <<>> THEN a ELSE Tail(a),
                                       IF b = <<>> THEN b ELSE Tail(b),
                                       t \div LimbBase)

LAdd(a, b) == LAddC(a, b, 0)

\* a - b for a >= b
RECURSIVE LSubC(_, _, _)
LSubC(a, b, c) ==
    IF a = <<>> THEN <<>>
    ELSE LET y == IF b = <<>> THEN 0 ELSE Head(b)
             t == Head(a) - y - c
         IN  <<t % LimbBase>> \o LSubC(Tail(a), IF b = <<>> THEN b ELSE Tail(b),
                                       IF t < 0 THEN 1 ELSE 0)

LSub(a, b) == LNorm(LSubC(a, b, 0))

\* a < b, both without high zero limbs
RECURSIVE LLess(_, _)
LLess(a, b) ==
    IF Len(a) # Len(b) THEN Len(a) < Len(b)
    ELSE IF a = <<>> THEN FALSE
    ELSE IF a[Len(a)] # b[Len(b)] THEN a[Len(a)] < b[Len(b)]
    ELSE LLess(LNorm(SubSeq(a, 1, Len(a) - 1)), LNorm(SubSeq(b, 1, Len(b) - 1)))

\* a * s + c for a natural s < LimbBase
RECURSIVE LMulSmallC(_, _, _)
LMulSmallC(a, s, c) ==
    IF a = <<>> THEN (IF c = 0 THEN <<>> ELSE <<c>>)
    ELSE LET t == Head(a) * s + c
         IN  <<t % LimbBase>> \o LMulSmallC(Tail(a), s, t \div LimbBase)

LMulSmall(a, s) == LNorm(LMulSmallC(a, s, 0))

\* a * LimbBase^j
LShiftLimbs(a, j) == IF a = <<>> THEN a ELSE [i \in 1..j |-> 0] \o a

RECURSIVE LMul(_, _)
LMul(a, b) ==
    IF b = <<>> THEN <<>>
    ELSE LAdd(LMulSmall(a, Head(b)), LShiftLimbs(LMul(a, Tail(b)), 1))

\* quotient and remainder of a by a natural d, 1 <= d < 2 * LimbBase
RECURSIVE LDivRem(_, _)
LDivRem(a, d) ==
    IF a = <<>> THEN [q |-> <<>>, r |-> 0]
    ELSE LET hi == LDivRem(Tail(a), d)
             cur == hi.r * LimbBase + Head(a)
         IN  [q |-> <<cur \div d>> \o hi.q, r |-> cur % d]

\* a * 2^k
LShl(a, k) == LShiftLimbs(LMulSmall(a, 2 ^ (k % LimbBits)), k \div LimbBits)

\* a \div 2^k, and whether no one bit was dropped
LShr(a, k) ==
    LET j == IF k \div LimbBits < Len(a) THEN k \div LimbBits ELSE Len(a)
        d == LDivRem(SubSeq(a, j + 1, Len(a)), 2 ^ (k % LimbBits))
    IN  [q |-> LNorm(d.q), exact |-> d.r = 0 /\ \A i \in 1..j : a[i] = 0]

RECURSIVE BitLen(_)
BitLen(n) == IF n = 0 THEN 0 ELSE 1 + BitLen(n \div 2)

LBitLen(a) == IF a = <<>> THEN 0 ELSE LimbBits * (Len(a) - 1) + BitLen(a[Len(a)])

LIsOdd(a) == a # <<>> /\ a[1] % 2 = 1

F64Precision == 53

\* the double nearest to the real m * 2^e (inexact: plus a positive amount
\* less than 2^e, m then having more than F64Precision + 1 bits)
F64Round(m, e, inexact) ==
    LET n == LBitLen(m)
    IN  IF n = 0 THEN [m |-> <<>>, e |-> 0]
        ELSE IF n <= F64Precision
        THEN [m |-> LShl(m, F64Precision - n), e |-> e - (F64Precision - n)]
        ELSE LET k == n - F64Precision
                 s == LShr(m, k - 1)
                 guard == LIsOdd(s.q)
                 kept == LShr(s.q, 1).q
                 sticky == ~s.exact \/ inexact
                 up == guard /\ (sticky \/ LIsOdd(kept))
                 r == IF up THEN LAdd(kept, <<1>>) ELSE kept
             IN  IF LBitLen(r) > F64Precision
                 THEN [m |-> LShr(r, 1).q, e |-> e + k + 1]
                 ELSE [m |-> r, e |-> e + k]

F64FromNat(n) == F64Round(LFromNat(n), 0, FALSE)

F64Min(a, b) == IF a < b THEN a ELSE b

F64Add(x, y) ==
    LET e == F64Min(x.e, y.e)
    IN  F64Round(LAdd(LShl(x.m, x.e - e), LShl(y.m, y.e - e)), e, FALSE)

\* |x - y|
F64AbsSub(x, y) ==
    LET e == F64Min(x.e, y.e)
        a == LShl(x.m, x.e - e)
        b == LShl(y.m, y.e - e)
    IN  F64Round(IF LLess(a, b) THEN LSub(b, a) ELSE LSub(a, b), e, FALSE)

F64Mul(x, y) == F64Round(LMul(x.m, y.m), x.e + y.e, FALSE)

F64GuardBits == 64

\* x / n for a natural n, 1 <= n < 2 * LimbBase
F64DivNat(x, n) ==
    LET d == LDivRem(LShl(x.m, F64GuardBits), n)
    IN  F64Round(LNorm(d.q), x.e - F64GuardBits, d.r > 0)

\* (df["conf_prob"] - df["outcome"]) ** 2 of a row with the given confidence
\* and outcome: conf / 100.0, minus 0 or 1, times itself
SquaredErrorF64 ==
    [c \in { CONFIDENCE_LEVELS[k] : k \in 1..Len(CONFIDENCE_LEVELS) }, o \in {0, 1} |->
        LET conf_prob == F64DivNat(F64FromNat(c), 100)
            d == F64AbsSub(conf_prob, F64FromNat(o))
        IN  F64Mul(d, d)]

\* the sum of the terms, added one after the other in row order
RECURSIVE F64SumFrom(_, _)
F64SumFrom(acc, terms) ==
    IF terms = <<>> THEN acc ELSE F64SumFrom(F64Add(acc, Head(terms)), Tail(terms))

\* float(((df["conf_prob"] - df["outcome"]) ** 2).mean()) as float64
BrierF64(df) ==
    LET terms == [i \in 1..Len(df) |->
                    SquaredErrorF64[df[i].confidence_percent, BoolInt(df[i].is_correct)]]
    IN  F64DivNat(F64SumFrom(F64FromNat(0), terms), Len(df))

\* grouped["n_correct"] / grouped["n_questions"] * 100 as float64
PercentCorrectF64(n_correct, n_questions) ==
    F64Mul(F64DivNat(F64FromNat(n_correct), n_questions), F64FromNat(100))

\* ------------------------------------------------ the engine specification
\* compute_calibration applied to every list of at most MaxLen scored rows,
\* each row as collect_responses builds it for a true/false question.
EngineQuestion(i) ==
    [id |-> i, round |-> "R1", prompt |-> "prompt", qtype |-> "tf",
     option_1 |-> "True", option_2 |-> "False", correct |-> 1]

EngineRow(i, in) ==
    ScoredRow(EngineQuestion(i), Some(in[1]),
              ParseConfidence(Some(FormatPercent(CONFIDENCE_LEVELS[in[2]]))).value)

EngineInputs == {"True", "False"} \X (1..Len(CONFIDENCE_LEVELS))

ResponseLists ==
    UNION { { [i \in 1..n |-> EngineRow(i, ins[i])] : ins \in [1..n -> EngineInputs] }
            : n \in 0..MaxLen }

InitEngine ==
    /\ questions = <<>>
    /\ session_state = <<>>
    /\ score_button = FALSE
    /\ presented = <<>>
    /\ responses_df \in ResponseLists
    /\ warning = FALSE
    /\ engine_calls = 0
    /\ calib = None
    /\ resp_debug = <<>>
    /\ script_error = FALSE

\* a call of compute_calibration on the list
EngineCompute ==
    LET r == compute_calibration(responses_df)
    IN  /\ calib' = Some(r)
        /\ responses_df' = r.df
        /\ engine_calls' = 1
        /\ UNCHANGED <<questions, session_state, score_button, presented,
                       warning, resp_debug, script_error>>

NextEngine == EngineCompute

EngineSpec == InitEngine /\ [][NextEngine]_vars


\* ------------------------------------------------------------- properties
Indexes(seq) == 1..Len(seq)

\* a question whose answer radio and confidence radio both hold a value
BothPresent(q) == session_state[AnsKey(q)] # None /\ session_state[ConfKey(q)] # None

RecordsOf(rows, q) == { j \in Indexes(rows) : rows[j].id = q.id }

QuestionOf(row) == questions[CHOOSE i \in Indexes(questions) : questions[i].id = row.id]

\* C1: collect_responses raises nothing and returns exactly one record for
\* each question whose answer and confidence are both present, and none for
\* a question where either is absent.
C1_OneRecordPerAnsweredQuestion ==
    /\ ~script_error
    /\ \A i \in Indexes(questions) :
          Cardinality(RecordsOf(resp_debug, questions[i]))
              = IF BothPresent(questions[i]) THEN 1 ELSE 0

MarkedCorrectText(q) == IF q.correct = 1 THEN q.option_1 ELSE q.option_2

\* C2: for every included question whose correct is 1 or 2, is_correct is
\* true exactly if the selected text equals the text of the option slot
\* marked correct, whichever slot the user clicked.
C2_CorrectByOptionText ==
    \A j \in Indexes(resp_debug) :
        LET row == resp_debug[j]
            q == QuestionOf(row)
        IN  q.correct \in {1, 2} =>
                (row.is_correct <=> row.selected_answer = Some(MarkedCorrectText(q)))

\* a record of a question marked 2 is correct, and so is a record of a
\* question whose two slots carry the same text
C2_Witness ==
    /\ \E j \in Indexes(resp_debug) :
          QuestionOf(resp_debug[j]).correct = 2 /\ resp_debug[j].is_correct
    /\ \E j \in Indexes(resp_debug) :
          /\ QuestionOf(resp_debug[j]).option_1 = QuestionOf(resp_debug[j]).option_2
          /\ resp_debug[j].is_correct

UsableCount == Cardinality({ i \in Indexes(questions) : BothPresent(questions[i]) })

NothingScored == engine_calls = 0 /\ calib = None

\* C3: a scoring request with zero usable responses (or zero collected rows)
\* shows the warning, does not call compute_calibration and produces no
\* result; compute_calibration is called only on at least one scored row.
C3_NoEngineOnZeroResponses ==
    /\ (score_button /\ UsableCount = 0) => (warning /\ NothingScored)
    /\ (score_button /\ Len(responses_df) = 0) => (warning /\ NothingScored)
    /\ engine_calls > 0 => Len(responses_df) >= 1
    /\ calib # None => (Value(calib).kind = "tuple" /\ Value(calib).n_used >= 1)

\* the button is pressed while one question has an answer but no confidence
C3_Witness ==
    /\ score_button /\ warning /\ UsableCount = 0
    /\ \E i \in Indexes(questions) : session_state[AnsKey(questions[i])] # None

\* C9: a record whose correct is not 1 or 2 makes the load fail, so its
\* question is neither presented nor scored.
C9_MalformedRecordRefused ==
    \A i \in Indexes(questions) :
        questions[i].correct \notin {1, 2} =>
            /\ \A j \in Indexes(presented) : presented[j] # questions[i].id
            /\ RecordsOf(resp_debug, questions[i]) = {}
            /\ RecordsOf(responses_df, questions[i]) = {}

PositionOf(qs, id) == CHOOSE i \in Indexes(qs) : qs[i].id = id

InBankOrder(rows, qs) ==
    \A i, j \in Indexes(rows) :
        i < j => PositionOf(qs, rows[i].id) < PositionOf(qs, rows[j].id)

ChangedKeys == { k \in DOMAIN session_state : session_state'[k] # session_state[k] }

\* C10: no script run changes the question bank; a scoring request changes
\* no stored selection and a selection changes only the selected widget; the
\* frame handed to compute_calibration is afterwards what collect_responses
\* returns for the same session; the records are in question-bank order.
C10_FrameAndOrder ==
    [][ /\ questions' = questions
        /\ DOMAIN session_state' = DOMAIN session_state
        /\ score_button' => ChangedKeys = {}
        /\ Cardinality(ChangedKeys) <= 1
        /\ (score_button' /\ engine_calls' > 0) => responses_df' = resp_debug'
        /\ InBankOrder(resp_debug', questions')
        /\ InBankOrder(responses_df', questions') ]_vars

\* every question of a two-question bank is scored
C10_Witness ==
    /\ score_button /\ engine_calls = 1
    /\ Len(questions) >= 2 /\ Len(responses_df) = Len(questions)

\* --- the engine's results
\* the double nearest to the fraction n / d
F64Nearest(n, d) == F64DivNat(F64FromNat(n), d)

\* |x - y| < 2^-30, which is less than 1e-9
F64Close(x, y) ==
    LET d == F64AbsSub(x, y)
    IN  d.m = <<>> \/ d.e + F64Precision <= -30

Scored == calib # None /\ Value(calib).kind = "tuple"

Buckets == Value(calib).grouped

LevelsUsed == { responses_df[i].confidence_percent : i \in Indexes(responses_df) }

RECURSIVE SumOver(_, _)
SumOver(f, S) ==
    IF S = {} THEN 0
    ELSE LET x == CHOOSE y \in S : TRUE
         IN  f[x] + SumOver(f, S \ {x})

\* C4: one bucket for each confidence value present in the list and no
\* other, none with n_questions = 0, and the n_questions add up to n_scored.
C4_BucketsPartitionResponses ==
    Scored =>
        /\ \A c \in LevelsUsed :
              Cardinality({ b \in Indexes(Buckets) : Buckets[b].stated_confidence = c }) = 1
        /\ \A b \in Indexes(Buckets) :
              Buckets[b].stated_confidence \in LevelsUsed /\ Buckets[b].n_questions >= 1
        /\ SumOver([b \in Indexes(Buckets) |-> Buckets[b].n_questions], Indexes(Buckets))
              = Value(calib).n_used
        /\ Value(calib).n_used = Len(responses_df)

\* three responses at two confidence levels
C4_Witness ==
    /\ Scored /\ Len(responses_df) = 3
    /\ Len(Buckets) = 2
    /\ \E b \in Indexes(Buckets) : Buckets[b].n_questions = 2

CorrectAt(c) ==
    { i \in Indexes(responses_df) :
        responses_df[i].confidence_percent = c /\ responses_df[i].is_correct }

\* C5: in every bucket n_correct counts the correct responses of its level,
\* 0 <= n_correct <= n_questions, n_questions is not zero and
\* percent_correct = 100 * n_correct / n_questions (as an exact number; the
\* float64 the code computes is within 1e-9 of it).
C5_BucketCounts ==
    Scored =>
        \A b \in Indexes(Buckets) :
            LET bk == Buckets[b]
            IN  /\ bk.n_correct = Cardinality(CorrectAt(bk.stated_confidence))
                /\ 0 <= bk.n_correct /\ bk.n_correct <= bk.n_questions
                /\ bk.n_questions > 0
                /\ bk.percent_correct.den > 0
                /\ bk.percent_correct.num * bk.n_questions
                       = 100 * bk.n_correct * bk.percent_correct.den
                /\ F64Close(PercentCorrectF64(bk.n_correct, bk.n_questions),
                            F64Nearest(100 * bk.n_correct, bk.n_questions))

\* a bucket of two responses, one of them correct
C5_Witness ==
    /\ Scored
    /\ \E b \in Indexes(Buckets) : Buckets[b].n_questions = 2 /\ Buckets[b].n_correct = 1

\* (stated_confidence - 100 * outcome)^2 of each response
SquaredErrorUnits ==
    [i \in Indexes(responses_df) |->
        LET d == responses_df[i].confidence_percent
                     - 100 * (IF responses_df[i].is_correct THEN 1 ELSE 0)
        IN  d * d]

SumSquaredErrorUnits == SumOver(SquaredErrorUnits, Indexes(responses_df))

\* C6: brier_score is the mean of (stated_confidence/100 - outcome)^2, that
\* is the sum of (stated_confidence - 100*outcome)^2 over 10000 * n_scored,
\* and lies in [0, 1] (as an exact number; the float64 the code computes is
\* within 1e-9 of it).
C6_BrierIsMeanSquaredError ==
    Scored =>
        LET brier == Value(calib).brier
            n == Len(responses_df)
        IN  /\ brier.den > 0
            /\ brier.num * (10000 * n) = SumSquaredErrorUnits * brier.den
            /\ 0 <= SumSquaredErrorUnits /\ SumSquaredErrorUnits <= 10000 * n
            /\ 0 <= brier.num /\ brier.num <= brier.den
            /\ F64Close(BrierF64(responses_df), F64Nearest(SumSquaredErrorUnits, 10000 * n))

\* three responses, some correct and some not
C6_Witness ==
    /\ Scored /\ Len(responses_df) = 3
    /\ \E i, j \in Indexes(responses_df) :
          responses_df[i].is_correct /\ ~responses_df[j].is_correct

CorrectResponses == { i \in Indexes(responses_df) : responses_df[i].is_correct }

\* C7: accuracy is the number of correct responses over n_scored, whatever
\* their buckets, lies in [0, 1], and its numerator is the sum of n_correct
\* over the buckets.
C7_AccuracyIsShareCorrect ==
    Scored =>
        LET accuracy == Value(calib).accuracy
            n == Len(responses_df)
        IN  /\ accuracy.den > 0
            /\ accuracy.num * n = Cardinality(CorrectResponses) * accuracy.den
            /\ 0 <= accuracy.num /\ accuracy.num <= accuracy.den
            /\ SumOver([b \in Indexes(Buckets) |-> Buckets[b].n_correct], Indexes(Buckets))
                   = Cardinality(CorrectResponses)

\* buckets of different sizes and different shares of correct responses
C7_Witness ==
    /\ Scored /\ Len(Buckets) = 2
    /\ Buckets[1].n_questions = 2 /\ Buckets[1].n_correct = 2
    /\ Buckets[2].n_questions = 1 /\ Buckets[2].n_correct = 0

IndexPermutations ==
    [n \in 0..MaxLen |->
        { f \in [1..n -> 1..n] : \A i, j \in 1..n : i # j => f[i] # f[j] }]

Permuted(df, f) == [i \in Indexes(df) |-> df[f[i]]]

SameResults(a, b) ==
    /\ a.kind = b.kind
    /\ a.grouped = b.grouped
    /\ a.brier = b.brier
    /\ a.accuracy = b.accuracy
    /\ a.n_used = b.n_used

\* C8 as stated: the call repeated on the same list, or made on any
\* permutation of it, returns identical buckets, brier_score, accuracy and
\* n_scored, brier_score being the float64 the code returns.
C8_IdenticalUnderPermutation ==
    Scored =>
        /\ SameResults(compute_calibration(responses_df), Value(calib))
        /\ \A f \in IndexPermutations[Len(responses_df)] :
              /\ SameResults(compute_calibration(Permuted(responses_df, f)), Value(calib))
              /\ BrierF64(Permuted(responses_df, f)) = BrierF64(responses_df)

\* C8 amended: the call repeated on the same list returns identical results;
\* on any permutation it returns identical buckets, accuracy and n_scored and
\* the same mean squared error as an exact number, from which the float64
\* brier_score of the list, in the order it has, is less than 1e-9 away.
C8_IdenticalUpToRounding ==
    Scored =>
        /\ SameResults(compute_calibration(responses_df), Value(calib))
        /\ BrierF64(responses_df) = BrierF64(Value(calib).df)
        /\ F64Close(BrierF64(responses_df),
                    F64Nearest(Value(calib).brier.num, Value(calib).brier.den))
        /\ \A f \in IndexPermutations[Len(responses_df)] :
              SameResults(compute_calibration(Permuted(responses_df, f)), Value(calib))

\* three responses at decreasing confidence, so that sorting reorders them
C8_Witness ==
    /\ Scored /\ Len(responses_df) = 3
    /\ responses_df[1].confidence_percent > responses_df[2].confidence_percent
    /\ responses_df[2].confidence_percent > responses_df[3].confidence_percent

=============================================================================
